---- MODULE Spec2Model ----
(***************************************************************************)
(* Viewport tracking and scroll-follow of the text area widget             *)
(* (src/src/widget.rs).  The Viewport is one 64-bit word holding four      *)
(* 16-bit fields; the render pass reads the previous top offsets, runs     *)
(* next_scroll_top on both axes and stores the result.                     *)
(*                                                                         *)
(* The 64-bit word is kept as four 16-bit limbs, least significant first   *)
(* (limb 1 = bits 0..15), because the model checker's integers are 32 bits *)
(* wide.  Shifts by a multiple of 16 move limbs; | and & act limb by limb, *)
(* bit by bit.                                                             *)
(*                                                                         *)
(* Rust's u16/i16 arithmetic with + - and unary - panics on overflow in a  *)
(* build with overflow checks (debug) and wraps in a build without         *)
(* (release).  The build is chosen once, in Init (overflow_checks).        *)
(***************************************************************************)
EXTENDS Integers, Sequences, FiniteSets

VARIABLES
    u,                \* Viewport.0: the packed word, four 16-bit limbs
    cursor,           \* state.cursor(): <<row, col>>, usize
    lines_len,        \* state.lines().len()
    show_placeholder, \* !state.placeholder.is_empty() && state.is_empty()
    overflow_checks,  \* the build: TRUE = arithmetic overflow panics
    panicked,         \* a panic has unwound out of the last operation
    op,               \* the last operation called: <<name, argument, argument>>
    prev,             \* scroll_top() as it was before the last operation
    accesses,         \* what the last render pass read and wrote, in order
    last_size,        \* <<width, height>> of the last render pass that returned
    copy,             \* a clone of the TextArea (its Viewport, cursor, lines)
    seen,             \* what a reader running during a render pass was returned
    scrolls           \* the number of calls of Viewport::scroll so far

vars == <<u, cursor, lines_len, show_placeholder, overflow_checks, panicked,
          op, prev, accesses, last_size, copy, seen, scrolls>>

----------------------------------------------------------------------------
(* Bounds of the model *)

\* rows, heights and cursor rows 0..Lo are explored (besides the high ones)
Lo == 1

\* calls of Viewport::scroll followed in one behaviour
MaxScrolls == 2
\* the buffer ends with the cursor's line, or MaxAfter lines after it
MaxAfter == 1

(* Program constants *)

\* number of values of a u16
W16 == 65536
\* u16::MAX
U16Max == 65535
\* i16::MIN and i16::MAX
I16Min == -32768
I16Max == 32767
\* the value of an expression whose evaluation panicked
PANIC == -100000

----------------------------------------------------------------------------
(* Fixed-width arithmetic *)

\* a + b on u16
AddU16(a, b) ==
    IF a = PANIC \/ b = PANIC THEN PANIC
    ELSE IF a + b > U16Max
         THEN (IF overflow_checks THEN PANIC ELSE (a + b) % W16)
         ELSE a + b

\* a - b on u16
SubU16(a, b) ==
    IF a = PANIC \/ b = PANIC THEN PANIC
    ELSE IF a - b < 0
         THEN (IF overflow_checks THEN PANIC ELSE (a - b) % W16)
         ELSE a - b

\* u16::saturating_add
saturating_add(a, b) == IF a + b > U16Max THEN U16Max ELSE a + b

\* u16::saturating_sub
saturating_sub(a, b) == IF a - b < 0 THEN 0 ELSE a - b

\* -d on i16
NegI16(d) ==
    IF d = I16Min
    THEN (IF overflow_checks THEN PANIC ELSE I16Min)
    ELSE 0 - d

\* `x as u16` of an integer (usize, i16, u64 limb): keeps the low 16 bits
AsU16(x) == IF x = PANIC THEN PANIC ELSE x % W16

RECURSIVE BitOr(_, _, _)
\* a | b on the low n bits (a, b < 2^n)
BitOr(a, b, n) ==
    IF n = 0 THEN 0
    ELSE IF a = 0 THEN b
    ELSE IF b = 0 THEN a
    ELSE (IF a % 2 = 1 \/ b % 2 = 1 THEN 1 ELSE 0)
         + 2 * BitOr(a \div 2, b \div 2, n - 1)

RECURSIVE BitAnd(_, _, _)
\* a & b on the low n bits (a, b < 2^n)
BitAnd(a, b, n) ==
    IF n = 0 \/ a = 0 \/ b = 0 THEN 0
    ELSE IF a = b THEN a
    ELSE (IF a % 2 = 1 /\ b % 2 = 1 THEN 1 ELSE 0)
         + 2 * BitAnd(a \div 2, b \div 2, n - 1)

\* `x as u64` of a u16
AsU64(x) == <<x, 0, 0, 0>>

\* w << n on u64, n a multiple of 16
Shl(w, n) == [i \in 1..4 |-> IF i - (n \div 16) >= 1 THEN w[i - (n \div 16)] ELSE 0]

\* w >> n on u64, n a multiple of 16
Shr(w, n) == [i \in 1..4 |-> IF i + (n \div 16) <= 4 THEN w[i + (n \div 16)] ELSE 0]

\* a | b on u64
Or64(a, b) == [i \in 1..4 |-> BitOr(a[i], b[i], 16)]

\* a & b on u64
And64(a, b) == [i \in 1..4 |-> BitAnd(a[i], b[i], 16)]

\* `w as u16` of a u64: the low limb
LowU16(w) == w[1]

\* 0xffff_ffff_0000_0000
HighMask == <<0, 0, U16Max, U16Max>>

----------------------------------------------------------------------------
(* Viewport *)

\* #[derive(Default)]: the word is 0
Default == <<0, 0, 0, 0>>

\* the value of a call that panicked instead of returning a word
Unwound == <<>>

\* Viewport::scroll_top
scroll_top(w) == <<AsU16(LowU16(Shr(w, 16))), AsU16(LowU16(w))>>

\* Viewport::rect: <<row, col, width, height>>
rect(w) ==
    LET width  == AsU16(LowU16(Shr(w, 48)))
        height == AsU16(LowU16(Shr(w, 32)))
        row    == AsU16(LowU16(Shr(w, 16)))
        col    == AsU16(LowU16(w))
    IN  <<row, col, width, height>>

\* position without the final max: the bottom is not held at the top
position_NoMax(w) ==
    LET row_top    == rect(w)[1]
        col_top    == rect(w)[2]
        width      == rect(w)[3]
        height     == rect(w)[4]
        row_bottom == saturating_sub(saturating_add(row_top, height), 1)
        col_bottom == saturating_sub(saturating_add(col_top, width), 1)
    IN  <<row_top, col_top, row_bottom, col_bottom>>

\* position with an exclusive bottom: the - 1 is left out
position_Exclusive(w) ==
    LET row_top    == rect(w)[1]
        col_top    == rect(w)[2]
        width      == rect(w)[3]
        height     == rect(w)[4]
        row_bottom == saturating_add(row_top, height)
        col_bottom == saturating_add(col_top, width)
    IN  <<row_top, col_top,
          IF row_top >= row_bottom THEN row_top ELSE row_bottom,
          IF col_top >= col_bottom THEN col_top ELSE col_bottom>>

\* Viewport::position: <<row_top, col_top, row_bottom, col_bottom>>
position(w) ==
    LET row_top    == rect(w)[1]
        col_top    == rect(w)[2]
        width      == rect(w)[3]
        height     == rect(w)[4]
        row_bottom == saturating_sub(saturating_add(row_top, height), 1)
        col_bottom == saturating_sub(saturating_add(col_top, width), 1)
    IN  <<row_top, col_top,
          IF row_top >= row_bottom THEN row_top ELSE row_bottom,
          IF col_top >= col_bottom THEN col_top ELSE col_bottom>>

\* store with the shifts of width and height exchanged
store_SwappedShifts(row, col, width, height) ==
    Or64(Or64(Or64(Shl(AsU64(width), 32), Shl(AsU64(height), 48)),
              Shl(AsU64(row), 16)),
         AsU64(col))

\* Viewport::store: the word written
store(row, col, width, height) ==
    Or64(Or64(Or64(Shl(AsU64(width), 48), Shl(AsU64(height), 32)),
              Shl(AsU64(row), 16)),
         AsU64(col))

\* apply_scroll casting a negative delta without negating it first
apply_scroll_NoNegate(pos, delta) ==
    IF delta >= 0
    THEN saturating_add(pos, AsU16(delta))
    ELSE saturating_sub(pos, AsU16(delta))

\* Viewport::scroll::apply_scroll
apply_scroll(pos, delta) ==
    IF delta >= 0
    THEN saturating_add(pos, AsU16(delta))
    ELSE LET n == AsU16(NegI16(delta))
         IN  IF n = PANIC THEN PANIC ELSE saturating_sub(pos, n)

\* scroll with the mask 0xffff_0000_0000_0000: the height is dropped
scroll_NarrowMask(w, rows, cols) ==
    LET row == apply_scroll(AsU16(LowU16(Shr(w, 16))), rows)
        col == apply_scroll(AsU16(LowU16(w)), cols)
    IN  IF row = PANIC \/ col = PANIC THEN Unwound
        ELSE Or64(Or64(And64(w, <<0, 0, 0, U16Max>>), Shl(AsU64(row), 16)),
                  AsU64(col))

\* Viewport::scroll: the word written, or Unwound
scroll(w, rows, cols) ==
    LET row == apply_scroll(AsU16(LowU16(Shr(w, 16))), rows)
        col == apply_scroll(AsU16(LowU16(w)), cols)
    IN  IF row = PANIC \/ col = PANIC THEN Unwound
        ELSE Or64(Or64(And64(w, HighMask), Shl(AsU64(row), 16)), AsU64(col))

----------------------------------------------------------------------------
(* TextAreaWidget::render *)

\* next_scroll_top moving up by one line instead of up to the cursor
next_scroll_top_UpByOne(prev_top, cursor_, length) ==
    IF cursor_ < prev_top THEN prev_top - 1
    ELSE IF AddU16(prev_top, length) = PANIC THEN PANIC
    ELSE IF AddU16(prev_top, length) <= cursor_
         THEN SubU16(AddU16(cursor_, 1), length)
    ELSE prev_top

\* render::next_scroll_top
next_scroll_top(prev_top, cursor_, length) ==
    IF cursor_ < prev_top THEN cursor_
    ELSE IF AddU16(prev_top, length) = PANIC THEN PANIC
    ELSE IF AddU16(prev_top, length) <= cursor_
         THEN SubU16(AddU16(cursor_, 1), length)
    ELSE prev_top

\* the slice state.lines()[top_row..bottom_row] is in range
SliceOk(top_row, height, len) ==
    LET bottom_row == IF top_row + height <= len THEN top_row + height ELSE len
    IN  top_row <= bottom_row /\ bottom_row <= len

\* render storing the size the viewport held instead of the inner area's
render_StaleSize(w, cur, len, placeholder, width, height) ==
    LET top_row == next_scroll_top(scroll_top(w)[1], AsU16(cur[1]), height)
        top_col == next_scroll_top(scroll_top(w)[2], AsU16(cur[2]), width)
    IN  IF top_row = PANIC \/ top_col = PANIC THEN Unwound
        ELSE IF ~placeholder /\ ~SliceOk(top_row, height, len) THEN Unwound
        ELSE store(top_row, top_col, rect(w)[3], rect(w)[4])

\* TextAreaWidget::render on an inner area width x height: the word stored,
\* or Unwound
render(w, cur, len, placeholder, width, height) ==
    LET top_row == next_scroll_top(scroll_top(w)[1], AsU16(cur[1]), height)
        top_col == next_scroll_top(scroll_top(w)[2], AsU16(cur[2]), width)
    IN  IF top_row = PANIC \/ top_col = PANIC THEN Unwound
        ELSE IF ~placeholder /\ ~SliceOk(top_row, height, len) THEN Unwound
        ELSE store(top_row, top_col, width, height)

\* render leaving out the store on the placeholder path
render_accesses_NoStoreForPlaceholder(w, cur, len, placeholder, width, height) ==
    IF render(w, cur, len, placeholder, width, height) = Unwound \/ placeholder
    THEN <<"cursor", "scroll_top">>
    ELSE <<"cursor", "scroll_top", "store">>

\* what a render pass reads and writes of the state, in order: state.cursor(),
\* viewport.scroll_top(), and viewport.store unless a panic left the pass
\* before it
render_accesses(w, cur, len, placeholder, width, height) ==
    IF render(w, cur, len, placeholder, width, height) = Unwound
    THEN <<"cursor", "scroll_top">>
    ELSE <<"cursor", "scroll_top", "store">>

\* no clone has been made
NoCopy == <<>>

\* a clone that shares the original's cell instead of owning a new one
clone_Shared(w) == [cell |-> "shared", word |-> w]

\* Clone for Viewport: one load of the word, and a new cell that holds it
clone(w) == [cell |-> "own", word |-> w]

\* a store that writes the four fields one after the other
store_writes_FieldByField(old, new) ==
    << <<new[1], old[2], old[3], old[4]>>, <<new[1], new[2], old[3], old[4]>>,
       <<new[1], new[2], new[3], old[4]>>, new >>

\* the values the cell takes, in order, while Viewport::store replaces old by
\* new: the one atomic store of the packed word
store_writes(old, new) == <<new>>

\* what a reader makes of the word w it loads; every reader loads once
View(kind, w) ==
    CASE kind = "scroll_top" -> scroll_top(w)
      [] kind = "rect"       -> rect(w)
      [] kind = "position"   -> position(w)
      [] kind = "clone"      -> clone(w).word

\* the readers of a Viewport
Readers == {"scroll_top", "rect", "position", "clone"}

\* no reader has run during a render pass
NotSeen == <<>>

----------------------------------------------------------------------------
(* Inputs explored.  next_scroll_top runs on both axes; the row axis is
   explored at both ends of the 16-bit range, the column axis near 0. *)

\* rows and heights: near 0, and u16::MAX
RowVals == (0..Lo) \cup {U16Max}

\* cursor rows (usize): 16-bit values and one that `as u16` truncates
CursorRows == RowVals \cup {W16 + 1}

\* columns, widths and cursor columns
ColVals == {0, 1}

\* arguments <<rows, cols>> of scroll (i16): one step either way on both
\* axes, and the ends of the i16 range on the row axis
ScrollArgs == {<<-1, -1>>, <<1, 1>>, <<I16Min, 1>>, <<I16Max, -1>>}

----------------------------------------------------------------------------
(* The state machine *)

Init ==
    /\ u = Default
    /\ cursor = <<0, 0>>
    /\ lines_len = 1
    /\ show_placeholder = FALSE
    /\ overflow_checks \in BOOLEAN
    /\ panicked = FALSE
    /\ op = <<"new", 0, 0>>
    /\ prev = <<0, 0>>
    /\ accesses = <<>>
    /\ last_size = <<0, 0>>
    /\ copy = NoCopy
    /\ seen = NotSeen
    /\ scrolls = 0

\* the text buffer (external) moves the cursor to <<r, c>> in a buffer of n
\* lines; p: the buffer is empty and a placeholder text is set
MoveCursor(r, c, n, p) ==
    /\ ~panicked
    /\ r < n
    /\ p => (r = 0 /\ c = 0 /\ n = 1)
    /\ cursor' = <<r, c>>
    /\ lines_len' = n
    /\ show_placeholder' = p
    /\ op' = <<"move", 0, 0>>
    /\ prev' = scroll_top(u)
    /\ accesses' = <<>>
    /\ seen' = NotSeen
    /\ UNCHANGED <<u, overflow_checks, panicked, last_size, copy, scrolls>>

\* Viewport::scroll(rows, cols); behaviours are followed up to MaxScrolls calls
Scroll(rows, cols) ==
    /\ ~panicked
    /\ scrolls < MaxScrolls
    /\ scrolls' = scrolls + 1
    /\ LET w == scroll(u, rows, cols)
       IN  IF w = Unwound
           THEN panicked' = TRUE /\ u' = u
           ELSE panicked' = FALSE /\ u' = w
    /\ op' = <<"scroll", rows, cols>>
    /\ prev' = scroll_top(u)
    /\ accesses' = <<>>
    /\ seen' = NotSeen
    /\ UNCHANGED <<cursor, lines_len, show_placeholder, overflow_checks,
                   last_size, copy>>

\* one render pass on an inner area of width x height
Render(width, height) ==
    /\ ~panicked
    /\ LET w == render(u, cursor, lines_len, show_placeholder, width, height)
       IN  IF w = Unwound
           THEN panicked' = TRUE /\ u' = u /\ last_size' = last_size
           ELSE panicked' = FALSE /\ u' = w /\ last_size' = <<width, height>>
    /\ op' = <<"render", width, height>>
    /\ prev' = scroll_top(u)
    /\ accesses' = render_accesses(u, cursor, lines_len, show_placeholder,
                                   width, height)
    /\ seen' = NotSeen
    /\ UNCHANGED <<cursor, lines_len, show_placeholder, overflow_checks, copy,
                   scrolls>>

Next ==
    \/ \E r \in CursorRows, c \in ColVals, a \in {0, MaxAfter}, p \in BOOLEAN :
          MoveCursor(r, c, r + 1 + a, p)
    \/ \E d \in ScrollArgs : Scroll(d[1], d[2])
    \/ \E width \in ColVals, height \in RowVals : Render(width, height)

Spec == Init /\ [][Next]_vars

----------------------------------------------------------------------------
(* A Viewport, a clone of it, and a reader that runs during a render pass *)

\* the word the clone reads
CopyWord == IF copy.cell = "shared" THEN u ELSE copy.word

\* Viewport::clone() of the original
Clone ==
    /\ ~panicked
    /\ copy' = clone(u)
    /\ op' = <<"clone", 0, 0>>
    /\ prev' = scroll_top(u)
    /\ accesses' = <<>>
    /\ seen' = NotSeen
    /\ UNCHANGED <<u, cursor, lines_len, show_placeholder, overflow_checks,
                   panicked, last_size, scrolls>>

\* Viewport::scroll(rows, cols) on the clone
ScrollCopy(rows, cols) ==
    /\ ~panicked
    /\ copy # NoCopy
    /\ scrolls < MaxScrolls
    /\ scrolls' = scrolls + 1
    /\ LET w == scroll(CopyWord, rows, cols)
       IN  IF w = Unwound
           THEN panicked' = TRUE /\ u' = u /\ copy' = copy
           ELSE /\ panicked' = FALSE
                /\ IF copy.cell = "shared"
                   THEN u' = w /\ copy' = copy
                   ELSE u' = u /\ copy' = [copy EXCEPT !.word = w]
    /\ op' = <<"scroll_copy", rows, cols>>
    /\ prev' = scroll_top(CopyWord)
    /\ accesses' = <<>>
    /\ seen' = NotSeen
    /\ UNCHANGED <<cursor, lines_len, show_placeholder, overflow_checks,
                   last_size>>

\* one render pass, on an inner area of width x height, of a text area that
\* owns the clone and holds the same text
RenderCopy(width, height) ==
    /\ ~panicked
    /\ copy # NoCopy
    /\ LET w == render(CopyWord, cursor, lines_len, show_placeholder,
                       width, height)
       IN  IF w = Unwound
           THEN panicked' = TRUE /\ u' = u /\ copy' = copy
           ELSE /\ panicked' = FALSE
                /\ IF copy.cell = "shared"
                   THEN u' = w /\ copy' = copy
                   ELSE u' = u /\ copy' = [copy EXCEPT !.word = w]
    /\ op' = <<"render_copy", width, height>>
    /\ prev' = scroll_top(CopyWord)
    /\ accesses' = <<>>
    /\ seen' = NotSeen
    /\ UNCHANGED <<cursor, lines_len, show_placeholder, overflow_checks,
                   last_size, scrolls>>

\* one render pass of the original while another thread runs the reader
\* `kind`, whose load comes before the store (at = 0) or after the at-th
\* value the store gives the cell
RenderRacing(width, height, kind) ==
    /\ ~panicked
    /\ LET w == render(u, cursor, lines_len, show_placeholder, width, height)
       IN  /\ w # Unwound
           /\ u' = w
           /\ \E at \in 0..Len(store_writes(u, w)) :
                 seen' = [kind |-> kind, old |-> View(kind, u),
                          got |-> View(kind, IF at = 0 THEN u
                                             ELSE store_writes(u, w)[at])]
    /\ last_size' = <<width, height>>
    /\ op' = <<"render", width, height>>
    /\ prev' = scroll_top(u)
    /\ accesses' = render_accesses(u, cursor, lines_len, show_placeholder,
                                   width, height)
    /\ UNCHANGED <<cursor, lines_len, show_placeholder, overflow_checks,
                   panicked, copy, scrolls>>

\* inner-area heights explored with a clone or a reader: the smallest and
\* the largest
SharedHeights == {0, U16Max}

NextShared ==
    \/ \E d \in ScrollArgs : Scroll(d[1], d[2])
    \/ \E width \in ColVals, height \in SharedHeights : Render(width, height)
    \/ Clone
    \/ \E d \in ScrollArgs : ScrollCopy(d[1], d[2])
    \/ \E width \in ColVals, height \in SharedHeights :
          RenderCopy(width, height)

SpecShared == Init /\ [][NextShared]_vars

NextRacing ==
    \/ \E d \in ScrollArgs : Scroll(d[1], d[2])
    \/ \E width \in ColVals, height \in SharedHeights : Render(width, height)
    \/ \E width \in ColVals, height \in SharedHeights, kind \in Readers :
          RenderRacing(width, height, kind)

SpecRacing == Init /\ [][NextRacing]_vars

----------------------------------------------------------------------------
(* What the last operation saw and left *)

\* the cursor coordinates the render pass uses: cursor.0 as u16, cursor.1 as u16
CurRow == AsU16(cursor[1])
CurCol == AsU16(cursor[2])

\* the stored fields
TopRow == rect(u)[1]
TopCol == rect(u)[2]
Width  == rect(u)[3]
Height == rect(u)[4]

\* the last operation was a render pass / a render pass that stored
Rendered == op[1] = "render"
Stored   == op[1] = "render" /\ ~panicked

\* the last operation was a call of Viewport::scroll
Scrolled == op[1] = "scroll"

\* the mathematical clamp of x to the u16 range
Clamp(x) == IF x < 0 THEN 0 ELSE IF x > U16Max THEN U16Max ELSE x

----------------------------------------------------------------------------
(* Claims *)

\* C1 (as claimed; refuted): immediately after every render pass whose inner
\* area has width >= 1 and height >= 1, the stored viewport has
\* top_row <= cursor_row < top_row + height and
\* top_col <= cursor_col < top_col + width, cursor_row and cursor_col being
\* the text area's cursor.
C1_CursorVisibleAfterRender ==
    (Stored /\ Width >= 1 /\ Height >= 1) =>
        /\ TopRow <= cursor[1] /\ cursor[1] < TopRow + Height
        /\ TopCol <= cursor[2] /\ cursor[2] < TopCol + Width

\* C2 (as claimed; refuted): when prev_top <= cursor < prev_top + length,
\* next_scroll_top returns prev_top, so the render pass leaves the top offset
\* of that axis unchanged.
C2_StickyWhenVisible ==
    /\ (Rendered /\ prev[1] <= CurRow /\ CurRow < prev[1] + op[3]) =>
          /\ next_scroll_top(prev[1], CurRow, op[3]) = prev[1]
          /\ ~panicked => TopRow = prev[1]
    /\ (Rendered /\ prev[2] <= CurCol /\ CurCol < prev[2] + op[2]) =>
          /\ next_scroll_top(prev[2], CurCol, op[2]) = prev[2]
          /\ ~panicked => TopCol = prev[2]

\* C3 (as claimed; refuted): when cursor >= prev_top + length, next_scroll_top
\* returns cursor + 1 - length and the cursor lies in the new window,
\* new_top <= cursor < new_top + length, for every length (0 included).
C3_FollowDownMakesVisible ==
    /\ (Rendered /\ CurRow >= prev[1] + op[3]) =>
          LET new_top == next_scroll_top(prev[1], CurRow, op[3])
          IN  /\ new_top = CurRow + 1 - op[3]
              /\ new_top <= CurRow /\ CurRow < new_top + op[3]
    /\ (Rendered /\ CurCol >= prev[2] + op[2]) =>
          LET new_top == next_scroll_top(prev[2], CurCol, op[2])
          IN  /\ new_top = CurCol + 1 - op[2]
              /\ new_top <= CurCol /\ CurCol < new_top + op[2]

\* C4: when cursor < prev_top, next_scroll_top returns exactly cursor,
\* whatever the length, and a render pass that stores leaves the top offset
\* of that axis at the cursor.
C4_FollowUpReturnsCursor ==
    /\ (Rendered /\ CurRow < prev[1]) =>
          /\ next_scroll_top(prev[1], CurRow, op[3]) = CurRow
          /\ ~panicked => TopRow = CurRow
    /\ (Rendered /\ CurCol < prev[2]) =>
          /\ next_scroll_top(prev[2], CurCol, op[2]) = CurCol
          /\ ~panicked => TopCol = CurCol

\* C4 witness: a render pass has stored after the cursor moved above the
\* window (a top row near u16::MAX, a cursor row below it).
C4_Witness ==
    /\ Stored /\ CurRow < prev[1] /\ prev[1] >= U16Max - 1
    /\ TopRow = CurRow /\ op[3] = 0

\* C5 (as claimed; refuted): feeding the result of next_scroll_top back as the
\* previous top, with the same cursor and length, gives the same result: a
\* second render pass with unchanged cursor and area would not move the top.
C5_Idempotent ==
    /\ Rendered =>
          LET r == next_scroll_top(prev[1], CurRow, op[3])
          IN  r # PANIC => next_scroll_top(r, CurRow, op[3]) = r
    /\ Rendered =>
          LET r == next_scroll_top(prev[2], CurCol, op[2])
          IN  r # PANIC => next_scroll_top(r, CurCol, op[2]) = r

\* C6 (as claimed; refuted): Viewport::scroll(rows, cols) sets each top offset
\* to clamp(old + delta, 0, 65535) for every delta in [-32768, 32767], and
\* never fails.
C6_ScrollClamps ==
    Scrolled =>
        /\ ~panicked
        /\ TopRow = Clamp(prev[1] + op[2])
        /\ TopCol = Clamp(prev[2] + op[3])

\* C7: a call of Viewport::scroll leaves the stored width and height as they
\* were before the call.
C7_ScrollKeepsSize ==
    [][op'[1] = "scroll" => (Width' = Width /\ Height' = Height)]_vars

\* C7 witness: a scroll has moved the top row of a viewport that holds a
\* non-zero width and height.
C7_Witness ==
    /\ Scrolled /\ ~panicked /\ TopRow # prev[1]
    /\ Width >= 1 /\ Height >= 1

\* C8: scroll(r, c) directly followed by scroll(-r, -c) restores the top
\* offsets the first call started from, whenever neither call was clamped
\* at 0 or 65535 (scroll(delta, delta) is the case r = c).
C8_ScrollRoundTrip ==
    [][ ( /\ op[1] = "scroll" /\ op'[1] = "scroll"
          /\ ~panicked /\ ~panicked'
          /\ op'[2] = 0 - op[2] /\ op'[3] = 0 - op[3]
          /\ prev[1] + op[2] \in 0..U16Max /\ prev[2] + op[3] \in 0..U16Max
          /\ TopRow + op'[2] \in 0..U16Max /\ TopCol + op'[3] \in 0..U16Max )
        => scroll_top(u') = prev ]_vars

\* C8 witness: the second of two calls, scroll(-1, -1), has brought the top
\* offsets from <<1, 1>> back to <<0, 0>>.
C8_Witness ==
    /\ Scrolled /\ ~panicked
    /\ op = <<"scroll", -1, -1>> /\ scrolls = 2
    /\ prev = <<1, 1>>
    /\ scroll_top(u) = <<0, 0>>

\* C9: in every reachable viewport state position() returns
\* row_bottom >= row_top and col_bottom >= col_top, with row_top = top_row
\* and col_top = top_col.
C9_PositionWellFormed ==
    /\ position(u)[3] >= position(u)[1]
    /\ position(u)[4] >= position(u)[2]
    /\ position(u)[1] = scroll_top(u)[1]
    /\ position(u)[2] = scroll_top(u)[2]

\* C9 witness: a viewport of zero width and height whose top offsets are 1,
\* so that top + size - 1 lies before top; position() returns top for both.
C9_Witness ==
    /\ Width = 0 /\ Height = 0 /\ TopRow = 1 /\ TopCol = 1
    /\ position(u) = <<1, 1, 1, 1>>

\* C10: position() returns row_bottom = max(top_row, top_row + height - 1)
\* and col_bottom = max(top_col, top_col + width - 1), the sum top + size
\* being limited to 65535 before the 1 is subtracted; after
\* store(4, 0, 80, 24) it returns <<4, 0, 27, 79>>.
C10_PositionInclusiveBottom ==
    LET Sum(a, b) == IF a + b > U16Max THEN U16Max ELSE a + b
        Max(a, b) == IF a >= b THEN a ELSE b
    IN  /\ position(u) = <<TopRow, TopCol,
                           Max(TopRow, Sum(TopRow, Height) - 1),
                           Max(TopCol, Sum(TopCol, Width) - 1)>>
        /\ position(store(4, 0, 80, 24)) = <<4, 0, 27, 79>>

\* C10 witness: a window of 65535 rows scrolled down to top row 1, so that
\* top + height passes 65535 and the bottom row returned is 65534.
C10_Witness ==
    /\ Scrolled /\ Height = U16Max /\ TopRow = 1 /\ Width = 1
    /\ position(u) = <<1, TopCol, U16Max - 1, TopCol>>

\* C11: store(row, col, width, height) followed by rect() returns
\* <<row, col, width, height>> and scroll_top() returns <<row, col>>; scroll()
\* rewrites the two offsets in the positions the accessors read, leaving every
\* field what the call made it.
C11_PackUnpackRoundTrip ==
    /\ Stored =>
          LET row == next_scroll_top(prev[1], CurRow, op[3])
              col == next_scroll_top(prev[2], CurCol, op[2])
          IN  /\ rect(u) = <<row, col, op[2], op[3]>>
              /\ scroll_top(u) = <<row, col>>
    /\ (Scrolled /\ ~panicked) =>
          /\ scroll_top(u) = <<apply_scroll(prev[1], op[2]),
                               apply_scroll(prev[2], op[3])>>
          /\ rect(u)[1] = scroll_top(u)[1] /\ rect(u)[2] = scroll_top(u)[2]
    /\ rect(store(4, 0, 80, 24)) = <<4, 0, 80, 24>>

\* C11 witness: a render pass has stored top row 1, top column 0, width 1
\* and height 65535, and rect() returns them.
C11_Witness ==
    /\ Stored /\ op = <<"render", 1, U16Max>>
    /\ rect(u) = <<1, 0, 1, U16Max>>

\* C14 (as claimed; refuted): when length = 0 and cursor >= prev_top,
\* next_scroll_top returns cursor.
C14_ZeroLengthAnchorsAtCursor ==
    /\ (Rendered /\ op[3] = 0 /\ CurRow >= prev[1]) =>
          next_scroll_top(prev[1], CurRow, op[3]) = CurRow
    /\ (Rendered /\ op[2] = 0 /\ CurCol >= prev[2]) =>
          next_scroll_top(prev[2], CurCol, op[2]) = CurCol

\* the value next_scroll_top has over the integers
ExactNextTop(p, c, l) ==
    IF c < p THEN c ELSE IF p + l <= c THEN c + 1 - l ELSE p

\* an expression next_scroll_top evaluates leaves the u16 range
LeavesU16(p, c, l) ==
    /\ c >= p
    /\ \/ p + l > U16Max
       \/ p + l <= c /\ (c + 1 > U16Max \/ c + 1 - l < 0)

\* C15 (as claimed; refuted): for every prev_top, cursor and length no
\* expression of next_scroll_top (prev_top + length, cursor + 1,
\* cursor + 1 - length) leaves the 16-bit range, and the result is the exact
\* value clamped to [0, 65535].
C15_NoOverflow ==
    /\ Rendered =>
          /\ ~LeavesU16(prev[1], CurRow, op[3])
          /\ next_scroll_top(prev[1], CurRow, op[3])
                = Clamp(ExactNextTop(prev[1], CurRow, op[3]))
    /\ Rendered =>
          /\ ~LeavesU16(prev[2], CurCol, op[2])
          /\ next_scroll_top(prev[2], CurCol, op[2])
                = Clamp(ExactNextTop(prev[2], CurCol, op[2]))

\* top t shows the cursor c in a window of l cells
Shows(t, c, l) == t >= 0 /\ t <= c /\ c < t + l

\* the distance between two offsets
Dist(a, b) == IF a >= b THEN a - b ELSE b - a

\* r shows the cursor and no top that shows it is nearer to p; |t - p| over
\* the tops that show the cursor is least at an end of their range or at p
MinimalMove(r, p, c, l) ==
    /\ r # PANIC
    /\ Shows(r, c, l)
    /\ \A t \in {c + 1 - l, c, p, r - 1, r + 1} :
          Shows(t, c, l) => Dist(r, p) <= Dist(t, p)

\* C16 (as claimed; refuted): for length >= 1 the top next_scroll_top returns
\* is, among the tops t with t <= cursor < t + length, one nearest to prev_top.
C16_MinimalMovement ==
    /\ (Rendered /\ op[3] >= 1) =>
          MinimalMove(next_scroll_top(prev[1], CurRow, op[3]),
                      prev[1], CurRow, op[3])
    /\ (Rendered /\ op[2] >= 1) =>
          MinimalMove(next_scroll_top(prev[2], CurCol, op[2]),
                      prev[2], CurCol, op[2])

\* C17 (as claimed; refuted): every render pass, on the placeholder path and
\* on the text path, writes the viewport exactly once, after its read of the
\* cursor and its only read of the previous offsets, and reads nothing after.
C17_OneStoreAfterReads ==
    Rendered => accesses = <<"cursor", "scroll_top", "store">>

\* C18 (as claimed; refuted): a render pass runs next_scroll_top with the width
\* and height of its own inner area, not with the stored ones, so the pass
\* places the cursor inside the window of the new size (of a size >= 1).
C18_FollowUsesCurrentArea ==
    Rendered =>
        LET row == next_scroll_top(prev[1], CurRow, op[3])
            col == next_scroll_top(prev[2], CurCol, op[2])
        IN  /\ ~panicked
            /\ rect(u) = <<row, col, op[2], op[3]>>
            /\ op[3] >= 1 => (TopRow <= cursor[1] /\ cursor[1] < TopRow + op[3])
            /\ op[2] >= 1 => (TopCol <= cursor[2] /\ cursor[2] < TopCol + op[2])

\* C19: a new Viewport holds four zeros; at any point rect() reports the
\* width and height of the last render pass that returned (0, 0 before the
\* first) and the offsets that pass computed, as moved since by scroll();
\* nothing but a render pass that stores changes the reported size.
C19_SizeOfLastRender ==
    /\ op[1] = "new" => rect(u) = <<0, 0, 0, 0>>
    /\ <<Width, Height>> = last_size
    /\ Stored =>
          scroll_top(u) = <<next_scroll_top(prev[1], CurRow, op[3]),
                            next_scroll_top(prev[2], CurCol, op[2])>>
    /\ (Scrolled /\ ~panicked) =>
          scroll_top(u) = <<Clamp(prev[1] + op[2]), Clamp(prev[2] + op[3])>>
    /\ (op[1] = "move" \/ panicked) => scroll_top(u) = prev

\* C19 witness: after a render pass on a 1 x 65535 area a scroll has moved the
\* top row; rect() still reports that area.
C19_Witness ==
    /\ Scrolled /\ ~panicked /\ TopRow # prev[1]
    /\ last_size = <<1, U16Max>> /\ Width = 1 /\ Height = U16Max

\* C20 (as claimed; refuted): with lines_len >= 1 and cursor_row < lines_len,
\* in every render pass on the text path
\* new_top_row <= min(new_top_row + height, lines_len) <= lines_len, so the
\* slice lines[top_row..bottom_row] is in range.
C20_SliceInRange ==
    (Rendered /\ ~show_placeholder /\ lines_len >= 1 /\ cursor[1] < lines_len) =>
        LET new_top_row == next_scroll_top(prev[1], CurRow, op[3])
        IN  new_top_row # PANIC => SliceOk(new_top_row, op[3], lines_len)

\* a and b answer rect(), scroll_top() and position() alike
SameAnswers(a, b) ==
    /\ rect(a) = rect(b)
    /\ scroll_top(a) = scroll_top(b)
    /\ position(a) = position(b)

\* C12: a clone's rect() equals the original's at the instant of cloning, and
\* a later scroll or render (with its store) on either of the two leaves the
\* other's rect(), scroll_top() and position() unchanged.
C12_CloneIndependent ==
    [][ /\ op'[1] = "clone" =>
              (rect(CopyWord') = rect(u) /\ SameAnswers(u, u'))
        /\ (copy # NoCopy /\ op'[1] \in {"scroll", "render"}) =>
              SameAnswers(CopyWord, CopyWord')
        /\ op'[1] \in {"scroll_copy", "render_copy"} => SameAnswers(u, u')
      ]_vars

\* C12 witness: after cloning, a scroll moved the original, and the clone
\* answers differently from the original.
C12_Witness ==
    /\ copy # NoCopy /\ Scrolled /\ ~panicked
    /\ scroll_top(u) # prev
    /\ scroll_top(CopyWord) = prev
    /\ rect(CopyWord) # rect(u)

\* C13: a reader (scroll_top, rect, position, clone) that runs during a store
\* gets the answer of the word before the store or of the word after it, never
\* one made of old and new fields.
C13_StoreIndivisible ==
    seen # NotSeen =>
        seen.got \in {seen.old, View(seen.kind, u)}

\* C13 witness: rect() ran during a store that changed the top row and the
\* height, and got the four new fields.
C13_Witness ==
    /\ seen # NotSeen /\ seen.kind = "rect"
    /\ seen.got = rect(u)
    /\ seen.old[1] # seen.got[1] /\ seen.old[4] # seen.got[4]

====
